---------------------------- MODULE Spec2Model ----------------------------
(***************************************************************************)
(* A model of the two heat-stress scripts:                                 *)
(*   scripts/15_min_to_daily_heat_stress.py          (stage 1, aggregator) *)
(*   scripts/statistical_heat_stress_characterization.py (stage 2)         *)
(*                                                                         *)
(* Column names are sequences of one-character strings, so that the        *)
(* substring, prefix and replace tests of the scripts are computed.        *)
(* A table (DataFrame or CSV file) is [cols, rows]; a cell is a record     *)
(* [k, s, n, d]: kind, text payload, numerator, denominator.  Numbers are  *)
(* exact rationals n/d (binary floating-point rounding is not modelled).   *)
(***************************************************************************)
EXTENDS Integers, Sequences, FiniteSets, TLC

VARIABLES
    pc,               \* position in the running script
    arg, res,         \* argument and result of a category function applied alone
    csv1,             \* stage 1: the input CSV file (--input)
    df,               \* stage 1: df
    dt_col,           \* stage 1: dt_col (<<>> is None)
    n_bad,            \* stage 1: n_bad
    stdout1,          \* stage 1: numbers printed by the invalid-datetime warning
    found,            \* stage 1: found, as a sequence of <<key, column>> in insertion order
    daily,            \* stage 1: daily
    out_csv,          \* stage 1: the file daily_WBGT_THI_stats.csv (<<>> while absent)
    exit1,            \* stage 1: exit status (<<>> while running)
    csv2,             \* stage 2: the input CSV file (--input)
    df2,              \* stage 2: df
    date_col,         \* stage 2: date_col (<<>> is None)
    wbgtout_mean,     \* stage 2: wbgtout_mean (<<>> is None)
    wbgtin_mean,      \* stage 2: wbgtin_mean
    thi_mean,         \* stage 2: thi_mean
    cat_df,           \* stage 2: cat_df
    categorized_csv,  \* stage 2: the file categorized_daily.csv (<<>> while absent)
    summary,          \* stage 2: summary (a function from its keys)
    summary_csv,      \* stage 2: the file summary_exposure_statistics.csv
    stderr2,          \* stage 2: what was reported on the error output
    exit2             \* stage 2: exit status (<<>> while running)

vars == <<pc, arg, res, csv1, df, dt_col, n_bad, stdout1, found, daily, out_csv,
          exit1, csv2, df2, date_col, wbgtout_mean, wbgtin_mean, thi_mean, cat_df,
          categorized_csv, summary, summary_csv, stderr2, exit2>>

vars1 == <<csv1, df, dt_col, n_bad, stdout1, found, daily, out_csv, exit1>>

vars2 == <<csv2, df2, date_col, wbgtout_mean, wbgtin_mean, thi_mean, cat_df,
           categorized_csv, summary, summary_csv, stderr2, exit2>>

varsCat == <<arg, res>>

-----------------------------------------------------------------------------
(* Bounds of the model. *)

\* numbers are drawn on a grid of 1/Scale
Scale == 2
\* the category functions alone are applied to every grid value in -GridHi..GridHi
GridHi == 95
\* stage 2 run alone: at most this many day rows
MaxRows2 == 2
\* stage 1 run alone: at most this many columns in a header whose order is varied
MaxCols == 3
\* stage 1 run alone: at most this many raw rows
MaxRows1 == 3

-----------------------------------------------------------------------------
(* Text: Python str methods on sequences of characters. *)

None == <<>>

Upper == <<"A","B","C","D","E","F","G","H","I","J","K","L","M",
           "N","O","P","Q","R","S","T","U","V","W","X","Y","Z">>

Lower == <<"a","b","c","d","e","f","g","h","i","j","k","l","m",
           "n","o","p","q","r","s","t","u","v","w","x","y","z">>

\* str.lower() on one character
LowerChar(c) ==
    IF \E i \in 1..Len(Upper) : Upper[i] = c
    THEN Lower[CHOOSE i \in 1..Len(Upper) : Upper[i] = c]
    ELSE c

\* s.lower()
ToLower(s) == [i \in 1..Len(s) |-> LowerChar(s[i])]

\* s.replace(" ", "_")
SpaceToUnderscore(s) == [i \in 1..Len(s) |-> IF s[i] = " " THEN "_" ELSE s[i]]

\* s.strip()
Strip(s) ==
    IF \A i \in 1..Len(s) : s[i] = " " THEN <<>>
    ELSE LET a == CHOOSE i \in 1..Len(s) :
                      s[i] # " " /\ \A j \in 1..(i - 1) : s[j] = " "
             b == CHOOSE i \in 1..Len(s) :
                      s[i] # " " /\ \A j \in (i + 1)..Len(s) : s[j] = " "
         IN SubSeq(s, a, b)

\* sub in s
Contains(s, sub) ==
    \E i \in 0..(Len(s) - Len(sub)) : SubSeq(s, i + 1, i + Len(sub)) = sub

\* s.startswith(p)
StartsWith(s, p) == Len(p) <= Len(s) /\ SubSeq(s, 1, Len(p)) = p

RECURSIVE Replace(_, _, _)
\* s.replace(old, new), old not empty: leftmost occurrences, not overlapping
Replace(s, old, new) ==
    IF Len(s) < Len(old) THEN s
    ELSE IF SubSeq(s, 1, Len(old)) = old
         THEN new \o Replace(SubSeq(s, Len(old) + 1, Len(s)), old, new)
         ELSE <<s[1]>> \o Replace(Tail(s), old, new)

Digit == <<"0","1","2","3","4","5","6","7","8","9">>

RECURSIVE IntStr(_)
\* str(t) of a natural number, as the f-string renders it
IntStr(t) == IF t < 10 THEN <<Digit[t + 1]>> ELSE IntStr(t \div 10) \o <<Digit[(t % 10) + 1]>>

s_datetime == <<"d", "a", "t", "e", "t", "i", "m", "e">>
s_date == <<"d", "a", "t", "e">>
s_time == <<"t", "i", "m", "e">>
s_timestamp == <<"t", "i", "m", "e", "s", "t", "a", "m", "p">>
s_mean == <<"m", "e", "a", "n">>
s_min == <<"m", "i", "n">>
s_max == <<"m", "a", "x">>
s_us == <<"_">>
s_wbgtout == <<"w", "b", "g", "t", "o", "u", "t">>
s_wbgtin == <<"w", "b", "g", "t", "i", "n">>
s_thi == <<"t", "h", "i">>
s_temperature == <<"t", "e", "m", "p", "e", "r", "a", "t", "u", "r", "e">>
s_humidity == <<"h", "u", "m", "i", "d", "i", "t", "y">>
s_wbgt_out == <<"w", "b", "g", "t", "_", "o", "u", "t">>
s_wbgt_dash_out == <<"w", "b", "g", "t", "-", "o", "u", "t">>
s_wbgt_sp_outdoor == <<"w", "b", "g", "t", " ", "o", "u", "t", "d", "o", "o", "r">>
s_wbgt_outdoor == <<"w", "b", "g", "t", "_", "o", "u", "t", "d", "o", "o", "r">>
s_wbgt_in == <<"w", "b", "g", "t", "_", "i", "n">>
s_wbgt_dash_in == <<"w", "b", "g", "t", "-", "i", "n">>
s_wbgt_sp_indoor == <<"w", "b", "g", "t", " ", "i", "n", "d", "o", "o", "r">>
s_wbgt_indoor == <<"w", "b", "g", "t", "_", "i", "n", "d", "o", "o", "r">>
s_temperature_humidity_index ==
    <<"t", "e", "m", "p", "e", "r", "a", "t", "u", "r", "e", "_", "h", "u", "m", "i",
      "d", "i", "t", "y", "_", "i", "n", "d", "e", "x">>
s_temp_humidity_index ==
    <<"t", "e", "m", "p", "_", "h", "u", "m", "i", "d", "i", "t", "y", "_", "i", "n",
      "d", "e", "x">>
s__mean == <<"_", "m", "e", "a", "n">>
s__max == <<"_", "m", "a", "x">>
s__min == <<"_", "m", "i", "n">>
s__category == <<"_", "c", "a", "t", "e", "g", "o", "r", "y">>
s__range == <<"_", "r", "a", "n", "g", "e">>
s_wbgtout_above_ == <<"w", "b", "g", "t", "o", "u", "t", "_", "a", "b", "o", "v", "e", "_">>
s_num_thresholds_exceeded ==
    <<"n", "u", "m", "_", "t", "h", "r", "e", "s", "h", "o", "l", "d", "s", "_", "e",
      "x", "c", "e", "e", "d", "e", "d">>

-----------------------------------------------------------------------------
(* Cells. *)

\* a float n/d
Float(n, d) == [k |-> "float", s |-> "", n |-> n, d |-> d]
RECURSIVE GCD(_, _)
GCD(a, b) == IF b = 0 THEN a ELSE GCD(b, a % b)

Abs(n) == IF n < 0 THEN 0 - n ELSE n

\* the float n/d in lowest terms (d > 0): one float has one representation
Q(n, d) == LET g == GCD(Abs(n), d) IN Float(n \div g, d \div g)

\* float("nan"): a missing numeric value
NaN == [k |-> "float", s |-> "nan", n |-> 0, d |-> 1]
\* a Python int
Int_(n) == [k |-> "int", s |-> "", n |-> n, d |-> 1]
\* a Python str; text "num" is the decimal text of n/d, "iso" the text of the
\* instant n ("2020-01-01 00:15"), "isodate" the text of the day n ("2020-01-01")
Str(s) == [k |-> "str", s |-> s, n |-> 0, d |-> 1]
StrOf(s, n, d) == [k |-> "str", s |-> s, n |-> n, d |-> d]
\* a pandas Timestamp at instant n (slots since day 0, 00:00), and NaT
Datetime(n) == [k |-> "datetime", s |-> "", n |-> n, d |-> 1]
NaT == [k |-> "datetime", s |-> "nat", n |-> 0, d |-> 1]
\* a datetime.date
Date(n) == [k |-> "date", s |-> "", n |-> n, d |-> 1]
\* Python None
NoneCell == [k |-> "none", s |-> "", n |-> 0, d |-> 1]

IsNaN(c) == c.k = "float" /\ c.s = "nan"
IsNum(c) == c.k = "float" /\ c.s = ""
\* pandas isna()
IsNA(c) == IsNaN(c) \/ c = NaT \/ c.k = "none"

\* float(v) succeeds: a float (NaN included), an int, or a str holding a number
CanFloat(c) == c.k \in {"float", "int"} \/ (c.k = "str" /\ c.s = "num")

\* float(v), for CanFloat(v)
ToFloat(c) == IF c.k = "float" THEN c ELSE Q(c.n, c.d)

\* x < t for a float x and an integer t: every comparison with NaN is False
FloatLt(x, t) == IsNum(x) /\ x.n < t * x.d
\* x > t
FloatGt(x, t) == IsNum(x) /\ x.n > t * x.d

-----------------------------------------------------------------------------
(* The category functions. *)

wbgt_category_le(v) ==
    IF ~CanFloat(v) THEN "Unknown"
    ELSE LET f == ToFloat(v) IN
         IF FloatLt(f, 25) \/ (IsNum(f) /\ f.n = 25 * f.d) THEN "Safe"
         ELSE IF FloatLt(f, 28) THEN "Caution"
         ELSE IF FloatLt(f, 31) THEN "Extreme Caution"
         ELSE IF FloatLt(f, 33) THEN "Danger"
         ELSE "Extreme Danger"

wbgt_category(v) ==
    IF ~CanFloat(v) THEN "Unknown"
    ELSE LET f == ToFloat(v) IN
         IF FloatLt(f, 25) THEN "Safe"
         ELSE IF FloatLt(f, 28) THEN "Caution"
         ELSE IF FloatLt(f, 31) THEN "Extreme Caution"
         ELSE IF FloatLt(f, 33) THEN "Danger"
         ELSE "Extreme Danger"

thi_category(v) ==
    IF ~CanFloat(v) THEN "Unknown"
    ELSE LET f == ToFloat(v) IN
         IF FloatLt(f, 72) THEN "Comfort"
         ELSE IF FloatLt(f, 79) THEN "Alert"
         ELSE IF FloatLt(f, 89) THEN "Danger"
         ELSE "Emergency"

-----------------------------------------------------------------------------
(* The category functions applied alone, to every value of the grid. *)

GridValues == {Q(n, Scale) : n \in (0 - GridHi * Scale)..(GridHi * Scale)}

CatArgs == GridValues \cup {NaN, Str("abc"), StrOf("num", 25 * Scale, Scale)}

Idle1 ==
    /\ csv1 = None /\ df = None /\ dt_col = None /\ n_bad = 0 /\ stdout1 = <<>>
    /\ found = <<>> /\ daily = None /\ out_csv = None /\ exit1 = <<>>

Idle2 ==
    /\ csv2 = None /\ df2 = None /\ date_col = None /\ wbgtout_mean = None
    /\ wbgtin_mean = None /\ thi_mean = None /\ cat_df = None
    /\ categorized_csv = None /\ summary = <<>> /\ summary_csv = None
    /\ stderr2 = <<>> /\ exit2 = <<>>

InitCat ==
    /\ pc = "apply"
    /\ arg \in CatArgs
    /\ res = ""
    /\ Idle1 /\ Idle2

ApplyWbgt ==
    /\ pc = "apply"
    /\ res' = wbgt_category(arg)
    /\ pc' = "wbgt_category"
    /\ UNCHANGED <<arg, vars1, vars2>>

ApplyThi ==
    /\ pc = "apply"
    /\ res' = thi_category(arg)
    /\ pc' = "thi_category"
    /\ UNCHANGED <<arg, vars1, vars2>>

NextCat == ApplyWbgt \/ ApplyThi

SpecCat == InitCat /\ [][NextCat]_vars

\* x >= t, for a number x
NumGe(x, t) == x.n >= t * x.d
\* x < t, for a number x
NumLt(x, t) == x.n < t * x.d

\* C1: for every numeric v, wbgt_category(v) is Safe below 25, Caution in [25, 28),
\* Extreme Caution in [28, 31), Danger in [31, 33), Extreme Danger from 33 on, and
\* thi_category(v) is Comfort below 72, Alert in [72, 79), Danger in [79, 89),
\* Emergency from 89 on: each boundary value falls in the higher band.
C1_Bands ==
    IsNum(arg) =>
      /\ pc = "wbgt_category" =>
           /\ res = "Safe" <=> NumLt(arg, 25)
           /\ res = "Caution" <=> (NumGe(arg, 25) /\ NumLt(arg, 28))
           /\ res = "Extreme Caution" <=> (NumGe(arg, 28) /\ NumLt(arg, 31))
           /\ res = "Danger" <=> (NumGe(arg, 31) /\ NumLt(arg, 33))
           /\ res = "Extreme Danger" <=> NumGe(arg, 33)
           /\ res \in {"Safe", "Caution", "Extreme Caution", "Danger", "Extreme Danger"}
      /\ pc = "thi_category" =>
           /\ res = "Comfort" <=> NumLt(arg, 72)
           /\ res = "Alert" <=> (NumGe(arg, 72) /\ NumLt(arg, 79))
           /\ res = "Danger" <=> (NumGe(arg, 79) /\ NumLt(arg, 89))
           /\ res = "Emergency" <=> NumGe(arg, 89)
           /\ res \in {"Comfort", "Alert", "Danger", "Emergency"}

\* a boundary value has been categorized into the higher band
C1_Witness ==
    /\ pc = "wbgt_category"
    /\ arg = Q(25, 1)
    /\ res = "Caution"

-----------------------------------------------------------------------------
(* Tables: a DataFrame or a CSV file is [cols |-> names, rows |-> rows of cells]. *)

Table(cols, rows) == [cols |-> cols, rows |-> rows]

Range(f) == {f[i] : i \in DOMAIN f}

\* name in t.columns
HasCol(t, name) == \E i \in 1..Len(t.cols) : t.cols[i] = name

ColIdx(t, name) ==
    CHOOSE i \in 1..Len(t.cols) :
        t.cols[i] = name /\ \A j \in 1..(i - 1) : t.cols[j] # name

\* t[name], as a sequence of cells
Col(t, name) == [r \in 1..Len(t.rows) |-> t.rows[r][ColIdx(t, name)]]

\* t[name] = cells: replaces the column in place, or appends a new one
SetCol(t, name, cells) ==
    IF HasCol(t, name)
    THEN Table(t.cols,
               [r \in 1..Len(t.rows) |-> [t.rows[r] EXCEPT ![ColIdx(t, name)] = cells[r]]])
    ELSE Table(Append(t.cols, name),
               [r \in 1..Len(t.rows) |-> Append(t.rows[r], cells[r])])

\* next((c for c in cols if P(c)), None)
FirstCol(cols, P(_)) ==
    IF \E i \in 1..Len(cols) : P(cols[i])
    THEN cols[CHOOSE i \in 1..Len(cols) : P(cols[i]) /\ \A j \in 1..(i - 1) : ~P(cols[j])]
    ELSE None

\* a CSV field is text: "" (empty), the decimal text of a number ("num"), the text
\* of a timestamp ("iso") or of a date ("isodate"), or other text
IsNumText(c) == c.k = "str" /\ c.s = "num"
IsEmpty(c) == c.k = "str" /\ c.s = ""

\* pd.read_csv's type of a column: float64 when every field is empty or a number,
\* else object (each field kept as a str, an empty one read as NaN)
FieldsNumeric(cells) == \A i \in 1..Len(cells) : IsEmpty(cells[i]) \/ IsNumText(cells[i])

ReadField(c, numeric) ==
    IF IsEmpty(c) THEN NaN
    ELSE IF numeric THEN Q(c.n, c.d)
    ELSE c

\* pd.read_csv(file)
ReadCsv(file) ==
    Table(file.cols,
          [r \in 1..Len(file.rows) |->
              [i \in 1..Len(file.cols) |->
                  ReadField(file.rows[r][i],
                            FieldsNumeric([q \in 1..Len(file.rows) |-> file.rows[q][i]]))]])

\* the text DataFrame.to_csv writes for a cell: a missing value is an empty field
WriteField(c) ==
    IF IsNA(c) THEN Str("")
    ELSE IF c.k \in {"float", "int"} THEN StrOf("num", c.n, c.d)
    ELSE IF c.k = "date" THEN StrOf("isodate", c.n, 1)
    ELSE IF c.k = "datetime" THEN StrOf("iso", c.n, 1)
    ELSE c

\* t.to_csv(path, index=False)
ToCsv(t) ==
    Table(t.cols,
          [r \in 1..Len(t.rows) |->
              [i \in 1..Len(t.cols) |-> WriteField(t.rows[r][i])]])

\* a day has this many 15-minute slots
SlotsPerDay == 96

\* pd.to_datetime(v, errors="coerce") of one value
ToDatetime(c) ==
    IF c.k = "str" /\ c.s = "iso" THEN Datetime(c.n)
    ELSE IF c.k = "str" /\ c.s = "isodate" THEN Datetime(c.n * SlotsPerDay)
    ELSE IF c.k = "datetime" THEN c
    ELSE NaT

RECURSIVE SumCells(_)
\* the exact sum of a sequence of numbers
SumCells(cells) ==
    IF cells = <<>> THEN Q(0, 1)
    ELSE LET h == Head(cells)
             t == SumCells(Tail(cells))
         IN Q(h.n * t.d + t.n * h.d, h.d * t.d)

\* the cells of a Series that skipna keeps
Valid(cells) == SelectSeq(cells, IsNum)

NumLe(a, b) == a.n * b.d <= b.n * a.d

\* Series.mean(): NaN when nothing is left
SeriesMean(cells) ==
    LET v == Valid(cells) IN
    IF v = <<>> THEN NaN
    ELSE LET t == SumCells(v) IN Q(t.n, t.d * Len(v))

\* Series.max()
SeriesMax(cells) ==
    LET v == Valid(cells) IN
    IF v = <<>> THEN NaN
    ELSE CHOOSE c \in Range(v) : \A o \in Range(v) : NumLe(o, c)

\* Series.min()
SeriesMin(cells) ==
    LET v == Valid(cells) IN
    IF v = <<>> THEN NaN
    ELSE CHOOSE c \in Range(v) : \A o \in Range(v) : NumLe(c, o)

\* an object column holding a str: arithmetic and ordering against numbers raise
HasStr(cells) == \E i \in 1..Len(cells) : cells[i].k = "str"

-----------------------------------------------------------------------------
(* Stage 2: statistical_heat_stress_characterization.py *)

\* df.columns.str.strip().str.lower()
NormalizeColumns2(t) ==
    Table([i \in 1..Len(t.cols) |-> ToLower(Strip(t.cols[i]))], t.rows)

\* next((c for c in df.columns if "date" in c), None)
FindDateCol(cols) == FirstCol(cols, LAMBDA c : Contains(c, s_date))

\* df[date_col] = pd.to_datetime(df[date_col], errors="coerce")
ParseDateCol(t, dc) ==
    IF dc = None THEN t
    ELSE SetCol(t, dc, [r \in 1..Len(t.rows) |-> ToDatetime(Col(t, dc)[r])])

\* the mean column of a metric key, with the fallback to the bare key
MeanColumn(cols, key) ==
    LET m == FirstCol(cols, LAMBDA c : StartsWith(c, key) /\ Contains(c, s_mean))
    IN IF m = None /\ key \in Range(cols) THEN key ELSE m

\* cat_df[label_category] = cat_df[mean_col].apply(category), if mean_col
Categorize(cat, mean_col, label, category(_)) ==
    IF mean_col = None THEN cat
    ELSE SetCol(cat, label \o s__category,
                [r \in 1..Len(cat.rows) |-> Str(category(Col(cat, mean_col)[r]))])

\* a - b on floats: NaN when either is missing
FloatSub(a, b) ==
    IF IsNum(a) /\ IsNum(b) THEN Q(a.n * b.d - b.n * a.d, a.d * b.d) ELSE NaN

\* add_range as it would be if it asked for the metric's mean column too
add_range_needs_mean(cat, d, prefix) ==
    LET max_col == prefix \o s__max
        min_col == prefix \o s__min
    IN IF HasCol(d, max_col) /\ HasCol(d, min_col) /\ MeanColumn(d.cols, prefix) # None
       THEN SetCol(cat, prefix \o s__range,
                   [r \in 1..Len(d.rows) |-> FloatSub(Col(d, max_col)[r], Col(d, min_col)[r])])
       ELSE cat

\* add_range(prefix): reads df, writes cat_df
add_range(cat, d, prefix) ==
    LET max_col == prefix \o s__max
        min_col == prefix \o s__min
    IN IF HasCol(d, max_col) /\ HasCol(d, min_col)
       THEN SetCol(cat, prefix \o s__range,
                   [r \in 1..Len(d.rows) |-> FloatSub(Col(d, max_col)[r], Col(d, min_col)[r])])
       ELSE cat

\* df[max_col] - df[min_col] raises TypeError on a str
add_range_raises(d, prefix) ==
    /\ HasCol(d, prefix \o s__max) /\ HasCol(d, prefix \o s__min)
    /\ HasStr(Col(d, prefix \o s__max)) \/ HasStr(Col(d, prefix \o s__min))

Prefixes == <<s_wbgtout, s_wbgtin, s_thi>>

thresholds == <<25, 27, 28, 30, 32>>

ExceedsOrEquals(x, t) == FloatGt(x, t) \/ (IsNum(x) /\ x.n = t * x.d)

\* cat_df[wbgtout_mean] > t, for one value
Exceeds(x, t) == FloatGt(x, t)

RECURSIVE AboveFrom(_, _, _)
\* the loop over thresholds[i..]: cat_df[wbgtout_above_t] = (... > t).astype(int)
AboveFrom(cat, mean_col, i) ==
    IF i > Len(thresholds) THEN cat
    ELSE AboveFrom(SetCol(cat, s_wbgtout_above_ \o IntStr(thresholds[i]),
                          [r \in 1..Len(cat.rows) |->
                              Int_(IF Exceeds(Col(cat, mean_col)[r], thresholds[i])
                                   THEN 1 ELSE 0)]),
                   mean_col, i + 1)

\* [c for c in cat_df.columns if c.startswith("wbgtout_above_")]
exceed_cols(cat) == SelectSeq(cat.cols, LAMBDA c : StartsWith(c, s_wbgtout_above_))

RECURSIVE SumInts(_)
SumInts(cells) == IF cells = <<>> THEN 0 ELSE Head(cells).n + SumInts(Tail(cells))

\* cat_df["num_thresholds_exceeded"] = cat_df[exceed_cols].sum(axis=1), if exceed_cols
AddNumExceeded(cat) ==
    LET ec == exceed_cols(cat) IN
    IF ec = <<>> THEN cat
    ELSE SetCol(cat, s_num_thresholds_exceeded,
                [r \in 1..Len(cat.rows) |->
                    Int_(SumInts([j \in 1..Len(ec) |-> Col(cat, ec[j])[r]]))])

\* the threshold columns with the count added in the same step
AddThresholdsAndCount(cat, mean_col) ==
    IF mean_col = None THEN cat ELSE AddNumExceeded(AboveFrom(cat, mean_col, 1))

\* lines 125-129: the threshold columns, if wbgtout_mean
AddThresholds(cat, mean_col) ==
    IF mean_col = None THEN cat ELSE AboveFrom(cat, mean_col, 1)

\* a summary key is the pair of the pieces its f-string joins
fill_summary(sm, cat, label, mean_col) ==
    IF mean_col = None
    THEN (<<label, "_mean_overall">> :> NoneCell) @@ (<<label, "_max_overall">> :> NoneCell)
         @@ (<<label, "_min_overall">> :> NoneCell) @@ sm
    ELSE LET prefix == Replace(mean_col, s__mean, <<>>)
             max_col == prefix \o s__max
             min_col == prefix \o s__min
         IN (<<label, "_mean_overall">> :> SeriesMean(Col(cat, mean_col)))
            @@ (<<label, "_max_overall">> :>
                   IF HasCol(cat, max_col) THEN SeriesMax(Col(cat, max_col))
                   ELSE SeriesMax(Col(cat, mean_col)))
            @@ (<<label, "_min_overall">> :>
                   IF HasCol(cat, min_col) THEN SeriesMin(Col(cat, min_col))
                   ELSE SeriesMin(Col(cat, mean_col)))
            @@ sm

\* cat_df[mean_col].mean() raises TypeError on an object column holding str
fill_summary_raises(cat, mean_col) == mean_col # None /\ HasStr(Col(cat, mean_col))

\* int(cat_df[col].isin(["Danger", "Extreme Danger"]).sum()) if col in cat_df else None
DaysInDanger(cat, col) ==
    IF HasCol(cat, col)
    THEN Int_(Cardinality({r \in 1..Len(cat.rows) :
                              Col(cat, col)[r] \in {Str("Danger"), Str("Extreme Danger")}}))
    ELSE NoneCell

\* pd.DataFrame([summary]).to_csv: one row, a None written as an empty field
SummaryCsv(sm) == [key \in DOMAIN sm |-> WriteField(sm[key])]

\* an uncaught exception: the traceback goes to the error output, the status is 1
Raise2 ==
    /\ stderr2' = Append(stderr2, "Traceback")
    /\ exit2' = <<1>>
    /\ pc' = "s2_exit"

\* lines 37-41, pd.read_csv raises: reported, sys.exit(1)
S2ReadFails ==
    /\ pc = "s2_read"
    /\ stderr2' = Append(stderr2, "ERROR reading input CSV")
    /\ exit2' = <<1>>
    /\ pc' = "s2_exit"
    /\ UNCHANGED <<varsCat, vars1, csv2, df2, date_col, wbgtout_mean, wbgtin_mean,
                   thi_mean, cat_df, categorized_csv, summary, summary_csv>>

\* lines 37-51: read, normalize the column names, parse the date column
S2Read ==
    /\ pc = "s2_read"
    /\ LET t == NormalizeColumns2(ReadCsv(csv2)) IN
         /\ date_col' = FindDateCol(t.cols)
         /\ df2' = ParseDateCol(t, FindDateCol(t.cols))
    /\ pc' = "s2_identify"
    /\ UNCHANGED <<varsCat, vars1, csv2, wbgtout_mean, wbgtin_mean, thi_mean, cat_df,
                   categorized_csv, summary, summary_csv, stderr2, exit2>>

\* lines 56-66
S2Identify ==
    /\ pc = "s2_identify"
    /\ wbgtout_mean' = MeanColumn(df2.cols, s_wbgtout)
    /\ wbgtin_mean' = MeanColumn(df2.cols, s_wbgtin)
    /\ thi_mean' = MeanColumn(df2.cols, s_thi)
    /\ pc' = "s2_categorize"
    /\ UNCHANGED <<varsCat, vars1, csv2, df2, date_col, cat_df, categorized_csv,
                   summary, summary_csv, stderr2, exit2>>

\* lines 71-108
S2Categorize ==
    /\ pc = "s2_categorize"
    /\ cat_df' = Categorize(Categorize(Categorize(df2, wbgtout_mean, s_wbgtout, wbgt_category),
                                       wbgtin_mean, s_wbgtin, wbgt_category),
                            thi_mean, s_thi, thi_category)
    /\ pc' = "s2_range"
    /\ UNCHANGED <<varsCat, vars1, csv2, df2, date_col, wbgtout_mean, wbgtin_mean,
                   thi_mean, categorized_csv, summary, summary_csv, stderr2, exit2>>

\* lines 113-120
S2AddRanges ==
    /\ pc = "s2_range"
    /\ IF \E i \in 1..Len(Prefixes) : add_range_raises(df2, Prefixes[i])
       THEN Raise2 /\ UNCHANGED cat_df
       ELSE /\ cat_df' = add_range(add_range(add_range(cat_df, df2, s_wbgtout),
                                             df2, s_wbgtin), df2, s_thi)
            /\ pc' = "s2_thresholds"
            /\ UNCHANGED <<stderr2, exit2>>
    /\ UNCHANGED <<varsCat, vars1, csv2, df2, date_col, wbgtout_mean, wbgtin_mean,
                   thi_mean, categorized_csv, summary, summary_csv>>

\* lines 125-129; comparing a str with a number raises TypeError
S2Thresholds ==
    /\ pc = "s2_thresholds"
    /\ IF wbgtout_mean # None /\ HasStr(Col(cat_df, wbgtout_mean))
       THEN Raise2 /\ UNCHANGED cat_df
       ELSE /\ cat_df' = AddThresholds(cat_df, wbgtout_mean)
            /\ pc' = "s2_save_categorized"
            /\ UNCHANGED <<stderr2, exit2>>
    /\ UNCHANGED <<varsCat, vars1, csv2, df2, date_col, wbgtout_mean, wbgtin_mean,
                   thi_mean, categorized_csv, summary, summary_csv>>

\* lines 132-134: the categorized table is written
S2SaveCategorized ==
    /\ pc = "s2_save_categorized"
    /\ categorized_csv' = ToCsv(cat_df)
    /\ pc' = "s2_summary"
    /\ UNCHANGED <<varsCat, vars1, csv2, df2, date_col, wbgtout_mean, wbgtin_mean,
                   thi_mean, cat_df, summary, summary_csv, stderr2, exit2>>

\* lines 135-136: to_csv raises, the except clause reports it and the script goes on
S2SaveCategorizedFails ==
    /\ pc = "s2_save_categorized"
    /\ stderr2' = Append(stderr2, "ERROR saving categorized CSV")
    /\ pc' = "s2_summary"
    /\ UNCHANGED <<varsCat, vars1, csv2, df2, date_col, wbgtout_mean, wbgtin_mean,
                   thi_mean, cat_df, categorized_csv, summary, summary_csv, exit2>>

\* lines 141-163
S2Summary ==
    /\ pc = "s2_summary"
    /\ IF \/ fill_summary_raises(cat_df, wbgtout_mean)
          \/ fill_summary_raises(cat_df, wbgtin_mean)
          \/ fill_summary_raises(cat_df, thi_mean)
       THEN Raise2 /\ UNCHANGED summary
       ELSE /\ summary' =
                 (<<"Days_in_Danger_or_Worse_", "WBGTin">> :>
                      DaysInDanger(cat_df, s_wbgtin \o s__category))
                 @@ (<<"Days_in_Danger_or_Worse_", "WBGTout">> :>
                      DaysInDanger(cat_df, s_wbgtout \o s__category))
                 @@ fill_summary(fill_summary(fill_summary(summary, cat_df, "WBGTout",
                                                           wbgtout_mean),
                                              cat_df, "WBGTin", wbgtin_mean),
                                 cat_df, "THI", thi_mean)
            /\ pc' = "s2_save_summary"
            /\ UNCHANGED <<stderr2, exit2>>
    /\ UNCHANGED <<varsCat, vars1, csv2, df2, date_col, wbgtout_mean, wbgtin_mean,
                   thi_mean, cat_df, categorized_csv, summary_csv>>

\* lines 166-167: the summary is written
S2SaveSummary ==
    /\ pc = "s2_save_summary"
    /\ summary_csv' = SummaryCsv(summary)
    /\ pc' = "s2_plots"
    /\ UNCHANGED <<varsCat, vars1, csv2, df2, date_col, wbgtout_mean, wbgtin_mean,
                   thi_mean, cat_df, categorized_csv, summary, stderr2, exit2>>

\* line 166: to_csv raises; no try statement encloses it
S2SaveSummaryFails ==
    /\ pc = "s2_save_summary"
    /\ Raise2
    /\ UNCHANGED <<varsCat, vars1, csv2, df2, date_col, wbgtout_mean, wbgtin_mean,
                   thi_mean, cat_df, categorized_csv, summary, summary_csv>>

\* lines 173-230: the plots (files only), num_thresholds_exceeded, the end of the script
S2Plots ==
    /\ pc = "s2_plots"
    /\ cat_df' = AddNumExceeded(cat_df)
    /\ exit2' = <<0>>
    /\ pc' = "s2_exit"
    /\ UNCHANGED <<varsCat, vars1, csv2, df2, date_col, wbgtout_mean, wbgtin_mean,
                   thi_mean, categorized_csv, summary, summary_csv, stderr2>>

Next2 ==
    \/ S2ReadFails \/ S2Read \/ S2Identify \/ S2Categorize \/ S2AddRanges
    \/ S2Thresholds \/ S2SaveCategorized \/ S2SaveCategorizedFails \/ S2Summary
    \/ S2SaveSummary \/ S2SaveSummaryFails \/ S2Plots

-----------------------------------------------------------------------------
(* Stage 2 run alone on daily tables. *)

\* the band edges and thresholds of outdoor WBGT: a mean is drawn at, just above
\* and (for the lowest) just below each
WbgtEdges == {25, 27, 28, 30, 31, 32, 33}

NumField(n, d) == StrOf("num", n, d)

WbgtoutFields ==
    {Str(""), Str("abc"), NumField(25 * Scale - 1, Scale)}
    \cup {NumField(b * Scale + e, Scale) : b \in WbgtEdges, e \in {0, 1}}

WbgtinFields == {Str(""), Str("abc"), NumField(31 * Scale - 1, Scale), NumField(31, 1)}

ThiFields == {Str(""), Str("abc"), NumField(72 * Scale - 1, Scale), NumField(89, 1)}

EndsWith(s, p) == Len(p) <= Len(s) /\ SubSeq(s, Len(s) - Len(p) + 1, Len(s)) = p

\* the fields a column of a daily table may hold in row r
Fields2(name, r) ==
    LET c == ToLower(Strip(name)) IN
    IF Contains(c, s_date) THEN {StrOf("isodate", r, 1)}
    ELSE IF EndsWith(c, s__min) THEN {NumField(20, 1)}
    ELSE IF EndsWith(c, s__max) THEN {NumField(40, 1), Str("")}
    ELSE IF StartsWith(c, s_wbgtout) THEN WbgtoutFields
    ELSE IF StartsWith(c, s_wbgtin) THEN WbgtinFields
    ELSE ThiFields

RECURSIVE RowsFrom(_, _, _)
RowsFrom(h, r, i) ==
    IF i > Len(h) THEN {<<>>}
    ELSE {<<c>> \o rest : c \in Fields2(h[i], r), rest \in RowsFrom(h, r, i + 1)}

RECURSIVE TablesOf(_, _)
TablesOf(h, n) ==
    IF n = 0 THEN {<<>>}
    ELSE {Append(t, row) : t \in TablesOf(h, n - 1), row \in RowsFrom(h, n, 1)}

Headers2 ==
    { <<s_date, s_wbgtout \o s__min, s_wbgtout \o s__mean, s_wbgtout \o s__max>>,
      <<s_date, s_wbgtout \o s__mean>>,
      <<s_date, s_wbgtout \o s__min, s_wbgtout \o s__max>>,
      <<s_date, s_wbgtout>>,
      <<<<" ", "W", "B", "G", "T", "o", "u", "t", "_", "M", "e", "a", "n", " ">>>>,
      <<s_date, s_wbgtin \o s__mean, s_thi \o s__mean>>,
      <<s_date, s_wbgtin \o s__min, s_wbgtin \o s__max, s_thi>>,
      <<s_date, s_thi \o s__min, s_thi \o s__mean, s_thi \o s__max>>,
      <<s_date>> }

Idle0 == arg = NaN /\ res = ""

Init2 ==
    /\ pc = "s2_read"
    /\ \E h \in Headers2, n \in 0..MaxRows2 : csv2 \in {Table(h, rows) : rows \in TablesOf(h, n)}
    /\ df2 = None /\ date_col = None /\ wbgtout_mean = None
    /\ wbgtin_mean = None /\ thi_mean = None /\ cat_df = None
    /\ categorized_csv = None /\ summary = <<>> /\ summary_csv = None
    /\ stderr2 = <<>> /\ exit2 = <<>>
    /\ Idle0 /\ Idle1

Spec2 == Init2 /\ [][Next2]_vars

-----------------------------------------------------------------------------
(* Properties of stage 2. *)

Keys == {s_wbgtout, s_wbgtin, s_thi}

\* the mean column stage 2 identified for a metric key
IdentifiedMean(key) ==
    IF key = s_wbgtout THEN wbgtout_mean
    ELSE IF key = s_wbgtin THEN wbgtin_mean
    ELSE thi_mean

SummaryLabel(key) ==
    IF key = s_wbgtout THEN "WBGTout" ELSE IF key = s_wbgtin THEN "WBGTin" ELSE "THI"

Categorized == cat_df # None
RangesDone ==
    \/ pc \in {"s2_thresholds", "s2_save_categorized", "s2_summary", "s2_save_summary",
               "s2_plots"}
    \/ pc = "s2_exit" /\ exit2 = <<0>>
ThresholdsDone ==
    \/ pc \in {"s2_save_categorized", "s2_summary", "s2_save_summary", "s2_plots"}
    \/ pc = "s2_exit" /\ exit2 = <<0>>
SummaryDone == DOMAIN summary # {}
Finished2 == pc = "s2_exit" /\ exit2 = <<0>>

\* a mean that is missing (an empty field, read as NaN) or is not a number
MissingMean(c) == IsNaN(c) \/ (c.k = "str" /\ c.s # "num")

RiskBands == {"Safe", "Caution", "Extreme Caution", "Danger", "Extreme Danger",
              "Comfort", "Alert", "Emergency"}

\* C2: a day row whose mean for a found metric is missing or non-numeric gets the
\* category "Unknown", never a risk band, and is not counted in
\* Days_in_Danger_or_Worse_WBGTout / _WBGTin.
C2_MissingIsUnknown ==
    Categorized =>
      \A key \in Keys :
        IdentifiedMean(key) # None =>
          /\ \A r \in 1..Len(cat_df.rows) :
               MissingMean(Col(df2, IdentifiedMean(key))[r]) =>
                 Col(cat_df, key \o s__category)[r] = Str("Unknown")
          /\ (SummaryDone /\ key # s_thi) =>
               summary[<<"Days_in_Danger_or_Worse_", SummaryLabel(key)>>].n
                 <= Cardinality({r \in 1..Len(cat_df.rows) :
                                    ~MissingMean(Col(df2, IdentifiedMean(key))[r])})

\* the number of thresholds a mean strictly exceeds, from the input as read
StrictlyAbove(m, t) == IsNum(m) /\ m.n > t * m.d
CountAbove(m) == Cardinality({t \in {25, 27, 28, 30, 32} : StrictlyAbove(m, t)})

\* C3: when an outdoor-WBGT mean column is found, each wbgtout_above_t is 1 if the
\* day's mean > t and 0 otherwise, and num_thresholds_exceeded is the number of
\* thresholds in {25, 27, 28, 30, 32} the mean strictly exceeds.
C3_CountOfThresholds ==
    (wbgtout_mean # None /\ ThresholdsDone) =>
      \A r \in 1..Len(cat_df.rows) :
        LET m == Col(df2, wbgtout_mean)[r] IN
        /\ \A t \in {25, 27, 28, 30, 32} :
             Col(cat_df, s_wbgtout_above_ \o IntStr(t))[r]
               = Int_(IF StrictlyAbove(m, t) THEN 1 ELSE 0)
        /\ Finished2 =>
             /\ HasCol(cat_df, s_num_thresholds_exceeded)
             /\ Col(cat_df, s_num_thresholds_exceeded)[r] = Int_(CountAbove(m))

\* a finished run with a day whose mean equals a threshold (27) and counts 1
C3_Witness ==
    /\ Finished2 /\ wbgtout_mean # None
    /\ \E r \in 1..Len(cat_df.rows) :
         /\ Col(df2, wbgtout_mean)[r] = Q(27, 1)
         /\ Col(cat_df, s_num_thresholds_exceeded)[r] = Int_(1)

AboveNames == {s_wbgtout_above_ \o IntStr(t) : t \in {25, 27, 28, 30, 32}}

SummaryWriteFailed == pc = "s2_exit" /\ SummaryDone /\ summary_csv = None

\* the input was read and holds text in no data column, so that nothing but a
\* write can fail
ReadClean ==
    /\ df2 # None
    /\ \A r \in 1..Len(df2.rows) : \A i \in 1..Len(df2.cols) : df2.rows[r][i].k # "str"

\* C7: once the input is read, a failure of either output write is caught and
\* reported, the run goes on (a categorized-write failure to the summary write, a
\* summary-write failure to the remaining steps), and the exit code is not 1.
C7_WriteFailuresAreSoft ==
    ReadClean =>
      /\ exit2 # <<1>>
      /\ "Traceback" \notin Range(stderr2)

\* the columns the categorized table has and the input does not
Gained == Range(cat_df.cols) \ Range(df2.cols)

SummaryNull(key) ==
    \A stat \in {"_mean_overall", "_max_overall", "_min_overall"} :
        summary[<<SummaryLabel(key), stat>>] = NoneCell

\* C9 as stated: a metric with neither a mean column nor a bare-key column gains no
\* derived column (no category, no range, no wbgtout_above_*), even when its _min
\* and _max columns exist, and its three summary scalars are null.
C9_NothingDerived ==
    Categorized =>
      \A key \in Keys :
        IdentifiedMean(key) = None =>
          /\ \A c \in Gained : ~StartsWith(c, key \o s_us)
          /\ SummaryDone => SummaryNull(key)

\* C9 amended: such a metric gains no category column and no wbgtout_above_*
\* column and its three summary scalars are null; it gains a _range column exactly
\* when the input has both its _min and its _max column.
C9_OnlyRangeDerived ==
    Categorized =>
      \A key \in Keys :
        IdentifiedMean(key) = None =>
          /\ \A c \in Gained : StartsWith(c, key \o s_us) => c = key \o s__range
          /\ RangesDone =>
               ((key \o s__range) \in Gained
                  <=> (HasCol(df2, key \o s__min) /\ HasCol(df2, key \o s__max)))
          /\ SummaryDone => SummaryNull(key)

\* a finished run on a table with wbgtout_min and wbgtout_max and no mean
C9_Witness ==
    /\ Finished2 /\ wbgtout_mean = None
    /\ HasCol(df2, s_wbgtout \o s__min) /\ HasCol(df2, s_wbgtout \o s__max)
    /\ (s_wbgtout \o s__range) \in Gained
    /\ SummaryNull(s_wbgtout)

-----------------------------------------------------------------------------
(* Stage 1: 15_min_to_daily_heat_stress.py *)

\* df.columns.str.strip().str.replace(" ", "_").str.lower()
NormalizeName1(c) == ToLower(SpaceToUnderscore(Strip(c)))

NormalizeColumns1(t) ==
    Table([i \in 1..Len(t.cols) |-> NormalizeName1(t.cols[i])], t.rows)

\* the test of the first loop (line 44)
IsDatetimeName(c) ==
    \/ Contains(c, s_datetime)
    \/ (Contains(c, s_date) /\ Contains(c, s_time))
    \/ c \in {s_timestamp, s_time}

\* the discovery as it would be with the "datetime" rule tried on every column first
FindDtColByPriority(cols) ==
    LET a == FirstCol(cols, LAMBDA c : Contains(c, s_datetime))
        b == FirstCol(cols, IsDatetimeName)
    IN IF a # None THEN a
       ELSE IF b # None THEN b
       ELSE FirstCol(cols, LAMBDA c : Contains(c, s_date))

\* lines 41-52: the first loop, then the fallback loop
FindDtCol(cols) ==
    LET m == FirstCol(cols, IsDatetimeName)
    IN IF m # None THEN m ELSE FirstCol(cols, LAMBDA c : Contains(c, s_date))

\* .dt.date with the time of day kept
DateKeepsTime(c) == Date(c.n)

\* .dt.date: the calendar day of a Timestamp
DateOf(c) == Date(c.n \div SlotsPerDay)

\* df.dropna(subset=[col])
DropNa(t, col) == Table(t.cols, SelectSeq(t.rows, LAMBDA row : ~IsNA(row[ColIdx(t, col)])))

\* df[dt_col].isna().sum()
CountNa(t, col) == Cardinality({r \in 1..Len(t.rows) : IsNA(Col(t, col)[r])})

candidates ==
    << <<s_wbgtout, <<s_wbgtout, s_wbgt_out, s_wbgt_dash_out, s_wbgt_sp_outdoor,
                      s_wbgt_outdoor>> >>,
       <<s_wbgtin, <<s_wbgtin, s_wbgt_in, s_wbgt_dash_in, s_wbgt_sp_indoor,
                     s_wbgt_indoor>> >>,
       <<s_thi, <<s_thi, s_temperature_humidity_index, s_temp_humidity_index>> >> >>

\* lines 82-93: found, in insertion order
Discover(cols) ==
    LET hits == [i \in 1..Len(candidates) |->
                    <<candidates[i][1],
                      FirstCol(candidates[i][2], LAMBDA name : name \in Range(cols))>>]
    IN SelectSeq(hits, LAMBDA p : p[2] # None)
       \o (IF s_temperature \in Range(cols) THEN <<<<s_temperature, s_temperature>>>> ELSE <<>>)
       \o (IF s_humidity \in Range(cols) THEN <<<<s_humidity, s_humidity>>>> ELSE <<>>)

RECURSIVE SortedDates(_)
\* the distinct dates in ascending order
SortedDates(S) ==
    IF S = {} THEN <<>>
    ELSE LET m == CHOOSE x \in S : \A y \in S : x.n <= y.n
         IN <<m>> \o SortedDates(S \ {m})

\* the groups of groupby("date"): the distinct keys, sorted; a missing key has no group
GroupKeys(t) == SortedDates({c \in Range(Col(t, s_date)) : ~IsNA(c)})

\* the values of a column in the rows of one group
GroupCells(t, col, key) ==
    LET rows == SelectSeq(t.rows, LAMBDA row : row[ColIdx(t, s_date)] = key)
    IN [r \in 1..Len(rows) |-> rows[r][ColIdx(t, col)]]

\* the sum of the group taken for its mean
SeriesSum(cells) ==
    LET v == Valid(cells) IN IF v = <<>> THEN NaN ELSE SumCells(v)

\* the mean of a group in groupby(...).agg
GroupMean(cells) == SeriesMean(cells)

RECURSIVE FlatNames(_)
\* ["_".join(col).strip() for col in daily.columns.values]
FlatNames(fnd) ==
    IF fnd = <<>> THEN <<>>
    ELSE LET col == Head(fnd)[2]
         IN << Strip(col \o s_us \o s_min), Strip(col \o s_us \o s_mean),
               Strip(col \o s_us \o s_max) >> \o FlatNames(Tail(fnd))

RECURSIVE GroupStats(_, _, _)
\* min, mean, max of each found column over one group
GroupStats(t, fnd, key) ==
    IF fnd = <<>> THEN <<>>
    ELSE LET cells == GroupCells(t, Head(fnd)[2], key)
         IN << SeriesMin(cells), GroupMean(cells), SeriesMax(cells) >>
            \o GroupStats(t, Tail(fnd), key)

\* lines 99-111
Aggregate(t, fnd) ==
    LET keys == GroupKeys(t) IN
    IF fnd = <<>>
    THEN Table(<<s_date>>, [i \in 1..Len(keys) |-> <<keys[i]>>])
    ELSE Table(<<s_date>> \o FlatNames(fnd),
               [i \in 1..Len(keys) |-> <<keys[i]>> \o GroupStats(t, fnd, keys[i])])

\* lines 31-35, pd.read_csv raises
S1ReadFails ==
    /\ pc = "s1_read"
    /\ exit1' = <<1>>
    /\ pc' = "s1_exit"
    /\ UNCHANGED <<varsCat, vars2, csv1, df, dt_col, n_bad, stdout1, found, daily, out_csv>>

\* lines 31-38
S1Read ==
    /\ pc = "s1_read"
    /\ df' = NormalizeColumns1(ReadCsv(csv1))
    /\ pc' = "s1_find_dt"
    /\ UNCHANGED <<varsCat, vars2, csv1, dt_col, n_bad, stdout1, found, daily, out_csv, exit1>>

\* lines 41-57
S1FindDt ==
    /\ pc = "s1_find_dt"
    /\ dt_col' = FindDtCol(df.cols)
    /\ IF FindDtCol(df.cols) = None
       THEN exit1' = <<1>> /\ pc' = "s1_exit"
       ELSE exit1' = exit1 /\ pc' = "s1_parse"
    /\ UNCHANGED <<varsCat, vars2, csv1, df, n_bad, stdout1, found, daily, out_csv>>

\* lines 60-73
S1Parse ==
    /\ pc = "s1_parse"
    /\ LET parsed == SetCol(df, dt_col,
                            [r \in 1..Len(df.rows) |-> ToDatetime(Col(df, dt_col)[r])])
           kept == DropNa(parsed, dt_col)
       IN /\ n_bad' = CountNa(parsed, dt_col)
          /\ stdout1' = IF CountNa(parsed, dt_col) > 0
                        THEN Append(stdout1, CountNa(parsed, dt_col)) ELSE stdout1
          /\ df' = SetCol(kept, s_date,
                          [r \in 1..Len(kept.rows) |-> DateOf(Col(kept, dt_col)[r])])
    /\ pc' = "s1_discover"
    /\ UNCHANGED <<varsCat, vars2, csv1, dt_col, found, daily, out_csv, exit1>>

\* lines 76-96
S1Discover ==
    /\ pc = "s1_discover"
    /\ found' = Discover(df.cols)
    /\ pc' = "s1_aggregate"
    /\ UNCHANGED <<varsCat, vars2, csv1, df, dt_col, n_bad, stdout1, daily, out_csv, exit1>>

\* lines 99-111
S1Aggregate ==
    /\ pc = "s1_aggregate"
    /\ daily' = Aggregate(df, found)
    /\ pc' = "s1_write"
    /\ UNCHANGED <<varsCat, vars2, csv1, df, dt_col, n_bad, stdout1, found, out_csv, exit1>>

\* lines 114-116, then the end of the script
S1Write ==
    /\ pc = "s1_write"
    /\ out_csv' = ToCsv(daily)
    /\ exit1' = <<0>>
    /\ pc' = "s1_exit"
    /\ UNCHANGED <<varsCat, vars2, csv1, df, dt_col, n_bad, stdout1, found, daily>>

\* lines 117-119
S1WriteFails ==
    /\ pc = "s1_write"
    /\ exit1' = <<1>>
    /\ pc' = "s1_exit"
    /\ UNCHANGED <<varsCat, vars2, csv1, df, dt_col, n_bad, stdout1, found, daily, out_csv>>

Next1 ==
    \/ S1ReadFails \/ S1Read \/ S1FindDt \/ S1Parse \/ S1Discover \/ S1Aggregate
    \/ S1Write \/ S1WriteFails

-----------------------------------------------------------------------------
(* Stage 1 run alone on raw tables. *)

\* the text of the timestamp on day d at slot s ("2020-01-0d hh:mm")
IsoField(d, s) == StrOf("iso", d * SlotsPerDay + s, 1)

\* 00:15 and 06:15
Slots == {1, 25}

\* 2020-01-01 and 2020-01-02
StampDays == {1, 2}

\* a timestamp text, or text that is none
TimestampFields == {Str("junk")} \cup {IsoField(d, s) : d \in StampDays, s \in Slots}

MetricFields == {NumField(24, 1), NumField(61, 2), Str("")}

IsTimeName(c) == Contains(NormalizeName1(c), s_date) \/ Contains(NormalizeName1(c), s_time)

RECURSIVE RowsOver(_, _, _, _)
\* the rows of a header, each column drawing from the fields of its kind
RowsOver(h, i, tsFields, numFields) ==
    IF i > Len(h) THEN {<<>>}
    ELSE {<<c>> \o rest : c \in (IF IsTimeName(h[i]) THEN tsFields ELSE numFields),
                          rest \in RowsOver(h, i + 1, tsFields, numFields)}

RECURSIVE TablesOver(_, _, _, _)
TablesOver(h, n, tsFields, numFields) ==
    IF n = 0 THEN {<<>>}
    ELSE {Append(t, row) : t \in TablesOver(h, n - 1, tsFields, numFields),
                           row \in RowsOver(h, 1, tsFields, numFields)}

s_Date_Time == <<" ", "D", "a", "t", "e", " ", "T", "i", "m", "e">>
s_update_date == <<"u", "p", "d", "a", "t", "e", "_", "d", "a", "t", "e">>
s_runtime == <<"r", "u", "n", "t", "i", "m", "e">>

\* column names whose order is varied
RawNames == {s_datetime, s_Date_Time, s_timestamp, s_time, s_date, s_update_date,
             s_runtime, s_wbgtout}

RECURSIVE HeadersOfLen(_)
\* the sequences of n distinct names
HeadersOfLen(n) ==
    IF n = 0 THEN {<<>>}
    ELSE {Append(h, c) : h \in HeadersOfLen(n - 1), c \in RawNames} 

OrderedHeaders ==
    {h \in UNION {HeadersOfLen(n) : n \in 1..MaxCols} :
        \A i, j \in 1..Len(h) : i # j => h[i] # h[j]}

\* headers whose rows are varied
RowHeaders == { <<s_datetime, s_wbgtout>>, <<s_Date_Time>> }

Init1 ==
    /\ pc = "s1_read"
    /\ \/ \E h \in OrderedHeaders :
            csv1 \in {Table(h, rows) :
                        rows \in TablesOver(h, 1, {IsoField(1, 1)}, {NumField(25, 1)})}
       \/ \E h \in RowHeaders, n \in 0..MaxRows1 :
            csv1 \in {Table(h, rows) :
                        rows \in TablesOver(h, n, TimestampFields, MetricFields)}
    /\ df = None /\ dt_col = None /\ n_bad = 0 /\ stdout1 = <<>>
    /\ found = <<>> /\ daily = None /\ out_csv = None /\ exit1 = <<>>
    /\ Idle0 /\ Idle2

Spec1 == Init1 /\ [][Next1]_vars

-----------------------------------------------------------------------------
(* Properties of stage 1. *)

\* the three rules of the timestamp-column discovery, as the specification lists them
Rule1(c) == Contains(c, s_datetime)
Rule2(c) == (Contains(c, s_date) /\ Contains(c, s_time)) \/ c = s_timestamp \/ c = s_time
Rule3(c) == Contains(c, s_date)

Matches(cols, R(_)) == \E i \in 1..Len(cols) : R(cols[i])

\* the state right after the discovery: a column was chosen, or the run failed
DtFound == pc = "s1_parse"
DtFailed == pc = "s1_exit" /\ df # None /\ dt_col = None /\ exit1 = <<1>>
DtDecided == DtFound \/ DtFailed

\* the normalized column names, in column order
NormCols == [i \in 1..Len(csv1.cols) |-> NormalizeName1(csv1.cols[i])]

\* C6 as stated: the rules apply in priority order: if any column contains
\* "datetime" the chosen column contains "datetime"; rule 2 is used only when no
\* column matches rule 1, rule 3 only when none matches rule 1 or 2; the run fails
\* exactly when no column matches any rule.
C6_PriorityOrder ==
    DtDecided =>
      /\ Matches(NormCols, Rule1) => (DtFound /\ Rule1(dt_col))
      /\ (~Matches(NormCols, Rule1) /\ Matches(NormCols, Rule2)) => (DtFound /\ Rule2(dt_col))
      /\ (~Matches(NormCols, Rule1) /\ ~Matches(NormCols, Rule2) /\ Matches(NormCols, Rule3))
           => (DtFound /\ Rule3(dt_col))
      /\ DtFailed <=> (~Matches(NormCols, Rule1) /\ ~Matches(NormCols, Rule2)
                       /\ ~Matches(NormCols, Rule3))

\* the position of the chosen column
DtIdx == CHOOSE i \in 1..Len(NormCols) : NormCols[i] = dt_col

\* C6 amended: rules 1 and 2 are one pass: the chosen column is the first column, in
\* column order, that matches rule 1 or rule 2; only when no column matches either
\* is it the first column containing "date"; the run fails exactly when no column
\* matches any rule.
C6_FirstOfRule1Or2 ==
    DtDecided =>
      /\ (Matches(NormCols, Rule1) \/ Matches(NormCols, Rule2)) =>
           /\ DtFound
           /\ Rule1(dt_col) \/ Rule2(dt_col)
           /\ \A j \in 1..(DtIdx - 1) : ~Rule1(NormCols[j]) /\ ~Rule2(NormCols[j])
      /\ (~Matches(NormCols, Rule1) /\ ~Matches(NormCols, Rule2) /\ Matches(NormCols, Rule3)) =>
           /\ DtFound
           /\ Rule3(dt_col)
           /\ \A j \in 1..(DtIdx - 1) : ~Rule3(NormCols[j])
      /\ DtFailed <=> (~Matches(NormCols, Rule1) /\ ~Matches(NormCols, Rule2)
                       /\ ~Matches(NormCols, Rule3))

\* a column matching only rule 2 stands before one containing "datetime", and is chosen
C6_Witness ==
    /\ DtFound
    /\ Len(NormCols) >= 2
    /\ NormCols[1] = s_time /\ NormCols[2] = s_datetime
    /\ dt_col = s_time

\* whether the text of a raw field is a timestamp
Parses(f) == f.k = "str" /\ f.s \in {"iso", "isodate"}

\* the calendar day of a timestamp text: the day d with d 00:00 <= instant < d+1 00:00
DayOfStamp(f) ==
    IF f.s = "isodate" THEN f.n
    ELSE CHOOSE d \in StampDays : d * SlotsPerDay <= f.n /\ f.n < (d + 1) * SlotsPerDay

\* the raw rows whose timestamp (column di of the input) parses
GoodRowsAt(di) == {r \in 1..Len(csv1.rows) : Parses(csv1.rows[r][di])}

\* the numbers column ci holds in the parsed rows of day d
DayValues(di, ci, d) ==
    {Q(csv1.rows[r][ci].n, csv1.rows[r][ci].d) :
        r \in {q \in GoodRowsAt(di) :
                  DayOfStamp(csv1.rows[q][di]) = d /\ IsNumText(csv1.rows[q][ci])}}

\* stage 1 has written its output and ended with status 0
Done1 == exit1 = <<0>>

\* C8: the output has exactly one row per distinct calendar date among the rows
\* whose timestamp parsed, in ascending order, with or without metrics; no row or
\* aggregate derives from a row whose timestamp did not parse; the number in the
\* warning is the number of rows dropped.
C8_OneRowPerDate ==
    Done1 =>
      LET nc == NormCols
          di == CHOOSE i \in 1..Len(nc) : nc[i] = dt_col
          good == GoodRowsAt(di)
          days == {DayOfStamp(csv1.rows[r][di]) : r \in good}
          dropped == Len(csv1.rows) - Len(df.rows)
      IN /\ n_bad = Len(csv1.rows) - Cardinality(good)
         /\ Len(df.rows) = Cardinality(good)
         /\ stdout1 = (IF dropped > 0 THEN <<dropped>> ELSE <<>>)
         /\ out_csv = ToCsv(daily)
         /\ Len(daily.rows) = Cardinality(days)
         /\ {daily.rows[i][1] : i \in 1..Len(daily.rows)} = {Date(d) : d \in days}
         /\ \A i, j \in 1..Len(daily.rows) : i < j => daily.rows[i][1].n < daily.rows[j][1].n
         /\ daily.cols[1] = s_date
         /\ Len(daily.cols) = 1 + 3 * Len(found)
         /\ \A k \in 1..Len(found) :
              LET ci == CHOOSE i \in 1..Len(nc) : nc[i] = found[k][2] IN
              \A i \in 1..Len(daily.rows) :
                LET vals == DayValues(di, ci, daily.rows[i][1].n)
                    lo == daily.rows[i][3 * k - 1]
                    hi == daily.rows[i][3 * k + 1]
                IN IF vals = {} THEN IsNaN(lo) /\ IsNaN(hi)
                   ELSE /\ lo \in vals /\ \A v \in vals : NumLe(lo, v)
                        /\ hi \in vals /\ \A v \in vals : NumLe(v, hi)

\* two parsed rows of one day at different times, a dropped row, one output row
C8_Witness ==
    /\ Done1 /\ found # <<>>
    /\ n_bad > 0 /\ stdout1 = <<n_bad>>
    /\ LET di == CHOOSE i \in 1..Len(NormCols) : NormCols[i] = dt_col IN
       \E r, q \in GoodRowsAt(di) :
         /\ csv1.rows[r][di] # csv1.rows[q][di]
         /\ DayOfStamp(csv1.rows[r][di]) = DayOfStamp(csv1.rows[q][di])
    /\ Len(daily.rows) = 1

-----------------------------------------------------------------------------
(* The pipeline: stage 1 on a raw table, then stage 2 on the file stage 1 wrote. *)

\* stage 2 is started with --input daily_WBGT_THI_stats.csv
RunStage2 ==
    /\ pc = "s1_exit"
    /\ exit1 = <<0>>
    /\ csv2' = out_csv
    /\ pc' = "s2_read"
    /\ UNCHANGED <<varsCat, vars1, df2, date_col, wbgtout_mean, wbgtin_mean, thi_mean,
                   cat_df, categorized_csv, summary, summary_csv, stderr2, exit2>>

NextPipe == Next1 \/ RunStage2 \/ Next2

\* at most this many raw rows pass through the pipeline
MaxPipeRows == 3

\* a raw log with a row every six hours and a quarter: row 1 on day 1 at 00:15, row 2
\* on day 1 at 06:15, row 3 on day 2 at 00:15, ...
PipeStamp(r) == IsoField((r + 1) \div 2, IF r % 2 = 1 THEN 1 ELSE 25)

PipeValues == {NumField(24, 1), NumField(61, 2), NumField(34, 1), Str("")}

s_WBGT_Outdoor == <<"W", "B", "G", "T", " ", "O", "u", "t", "d", "o", "o", "r">>

\* a timestamp column and one metric column under each alias stage 1 accepts
PipeHeaders ==
    { <<s_datetime, s_wbgtout>>, <<s_datetime, s_wbgt_out>>, <<s_datetime, s_wbgt_dash_out>>,
      <<s_Date_Time, s_WBGT_Outdoor>>,
      <<s_datetime, s_wbgtin>>, <<s_datetime, s_wbgt_in>>, <<s_datetime, s_wbgt_dash_in>>,
      <<s_datetime, s_wbgt_indoor>>,
      <<s_datetime, s_thi>>, <<s_datetime, s_temperature_humidity_index>>,
      <<s_datetime, s_temp_humidity_index>>,
      <<s_datetime, s_temperature>>, <<s_datetime>> }

RECURSIVE PipeTables(_, _)
PipeTables(h, n) ==
    IF n = 0 THEN {<<>>}
    ELSE {Append(t, row) : t \in PipeTables(h, n - 1),
                           row \in RowsOver(h, 1, {PipeStamp(n)}, PipeValues)}

InitPipe ==
    /\ pc = "s1_read"
    /\ \E h \in PipeHeaders, n \in 1..MaxPipeRows :
            csv1 \in {Table(h, rows) : rows \in PipeTables(h, n)}
    /\ df = None /\ dt_col = None /\ n_bad = 0 /\ stdout1 = <<>>
    /\ found = <<>> /\ daily = None /\ out_csv = None /\ exit1 = <<>>
    /\ csv2 = None /\ df2 = None /\ date_col = None /\ wbgtout_mean = None
    /\ wbgtin_mean = None /\ thi_mean = None /\ cat_df = None
    /\ categorized_csv = None /\ summary = <<>> /\ summary_csv = None
    /\ stderr2 = <<>> /\ exit2 = <<>>
    /\ Idle0

SpecPipe == InitPipe /\ [][NextPipe]_vars

\* the raw rows of the end-to-end example
Example ==
    Table(<<s_datetime, s_wbgtout>>,
          << <<IsoField(1, 1), NumField(24, 1)>>,
             <<IsoField(1, 25), NumField(61, 2)>>,
             <<IsoField(2, 1), NumField(34, 1)>> >>)

\* the two daily rows the example gives: 24.0 / 27.25 / 30.5, and 34.0 three times
ExampleDaily ==
    Table(<<s_date, s_wbgtout \o s__min, s_wbgtout \o s__mean, s_wbgtout \o s__max>>,
          << <<Date(1), Float(24, 1), Float(109, 4), Float(61, 2)>>,
             <<Date(2), Float(34, 1), Float(34, 1), Float(34, 1)>> >>)

ExampleCategories ==
    /\ Len(cat_df.rows) = 2
    /\ Col(cat_df, s_wbgtout \o s__category) = <<Str("Caution"), Str("Extreme Danger")>>

\* C4 as stated: the example gives the two daily rows, the categories "Caution" and
\* "Extreme Danger", and the exceedance counts 1 (only 25) and 5.
C4_ExampleCounts1And5 ==
    csv1 = Example =>
      /\ Done1 => daily = ExampleDaily
      /\ Finished2 =>
           /\ ExampleCategories
           /\ Col(cat_df, s_num_thresholds_exceeded) = <<Int_(1), Int_(5)>>

\* C4 amended: the example gives the two daily rows, the categories "Caution" and
\* "Extreme Danger", and the exceedance counts 2 (27.25 exceeds 25 and 27) and 5.
C4_ExampleCounts2And5 ==
    csv1 = Example =>
      /\ Done1 => daily = ExampleDaily
      /\ Finished2 =>
           /\ ExampleCategories
           /\ Col(cat_df, s_num_thresholds_exceeded) = <<Int_(2), Int_(5)>>
           /\ Col(cat_df, s_wbgtout_above_ \o IntStr(25))[1] = Int_(1)
           /\ Col(cat_df, s_wbgtout_above_ \o IntStr(27))[1] = Int_(1)
           /\ Col(cat_df, s_wbgtout_above_ \o IntStr(28))[1] = Int_(0)

\* both stages have run to their end on the example
C4_Witness == csv1 = Example /\ Finished2 /\ Len(cat_df.rows) = 2

\* C10: for every metric key stage 1 discovers, under any alias, stage 2 run on
\* stage 1's output finds the metric's mean column, so that the days get a category.
C10_Stage2FindsStage1Metrics ==
    (Done1 /\ Categorized) =>
      \A key \in Keys :
        (\E k \in 1..Len(found) : found[k][1] = key) =>
          /\ IdentifiedMean(key) # None
          /\ HasCol(cat_df, key \o s__category)

=============================================================================
